---- MODULE Spec2Model ----
(***************************************************************************)
(* Model of store_finder.py: the command-line program that loads the store *)
(* list, geocodes the search location, scans the stores for the nearest    *)
(* one (haversine distance) and prints it.                                 *)
(*                                                                         *)
(* Floating point numbers are modelled in fixed point: a real number r is  *)
(* the integer r * Scale (angles in radians, sines, cosines), and a        *)
(* distance is 2 * sphere_radius * asin(..), the radius a whole number of  *)
(* units, so a distance is in 1/Scale of a unit.  All intermediate values  *)
(* stay below 2^31.                                                        *)
(***************************************************************************)
EXTENDS Integers, Naturals, Sequences, FiniteSets, TLC

\* ------------------------------------------------------------------------
\* Bounds and input sets
\* ------------------------------------------------------------------------

\* The largest number of data rows of store-locations.csv.
MaxStores == 3

\* Fixed-point unit: the integer Scale stands for the real number 1.
Scale == 100 * 100

\* math.pi in fixed point (3.1416).
Pi == 31416

HalfPi == Pi \div 2

\* KM_TO_MI = 0.621371 in fixed point (0.6214).
KM_TO_MI == 6214

EARTH_RADIUS_KM == 6371

EARTH_RADIUS_MI == (EARTH_RADIUS_KM * KM_TO_MI) \div Scale

\* ------------------------------------------------------------------------
\* Fixed-point arithmetic standing for the float operations of the code
\* ------------------------------------------------------------------------

Abs(x) == IF x < 0 THEN -x ELSE x

\* The product of two fixed-point numbers.
Mul(x, y) == (x * y) \div Scale

\* x / 2, rounded toward zero.
Half(x) == IF x < 0 THEN -((-x) \div 2) ELSE x \div 2

\* math.radians: degrees (whole numbers) to fixed-point radians, odd in its
\* argument as the float conversion is.
Radians(deg) ==
    IF deg < 0 THEN -((((-deg) * Pi) + 90) \div 180)
    ELSE ((deg * Pi) + 90) \div 180

\* sin on [0, pi/2] by its Taylor polynomial x - x^3/3! + x^5/5! - x^7/7! +
\* x^9/9!, kept within [0, 1] as math.sin is.
SinQuadrant(x) ==
    LET x2 == Mul(x, x)
        t3 == Mul(x, x2) \div 6
        t5 == Mul(t3, x2) \div 20
        t7 == Mul(t5, x2) \div 42
        t9 == Mul(t7, x2) \div 72
        s  == x - t3 + t5 - t7 + t9
    IN  IF s < 0 THEN 0 ELSE IF s > Scale THEN Scale ELSE s

\* math.sin for an angle in [-2 pi, 2 pi].
Sin(x) ==
    LET a == Abs(x)
        v == IF a <= HalfPi THEN SinQuadrant(a)
             ELSE IF a <= Pi THEN SinQuadrant(Pi - a)
             ELSE IF a <= Pi + HalfPi THEN -SinQuadrant(a - Pi)
             ELSE -SinQuadrant((2 * Pi) - a)
    IN  IF x < 0 THEN -v ELSE v

\* math.cos for an angle in [-pi, pi].
Cos(x) == Sin(HalfPi - Abs(x))

RECURSIVE SqrtSearch(_, _, _)
\* The largest r in lo..hi with r * r <= n.
SqrtSearch(lo, hi, n) ==
    IF lo >= hi THEN lo
    ELSE LET mid == (lo + hi + 1) \div 2
         IN  IF mid * mid <= n THEN SqrtSearch(mid, hi, n)
             ELSE SqrtSearch(lo, mid - 1, n)

\* math.sqrt of a fixed-point number 0 <= x <= 2.
Sqrt(x) == SqrtSearch(0, 2 * Scale, x * Scale)

RECURSIVE AsinSearch(_, _, _)
\* The greatest angle t in lo..hi with sin(t) <= x.
AsinSearch(lo, hi, x) ==
    IF lo >= hi THEN lo
    ELSE LET mid == (lo + hi + 1) \div 2
         IN  IF SinQuadrant(mid) <= x THEN AsinSearch(mid, hi, x)
             ELSE AsinSearch(lo, mid - 1, x)

\* math.asin for 0 <= x <= 1: the angle in [0, pi/2] whose sine is x.
Asin(x) == AsinSearch(0, HalfPi, x)

\* ------------------------------------------------------------------------
\* Point, Store
\* ------------------------------------------------------------------------

\* class Point(NamedTuple): latitude and longitude in degrees.
Point(latitude, longitude) == [latitude |-> latitude, longitude |-> longitude]

latitude_radians(point) == Radians(point.latitude)

longitude_radians(point) == Radians(point.longitude)

\* Python's None, and a value that is not None, for an optional field or
\* for a variable that is not bound yet.
None == <<>>

Some(v) == <<v>>

\* class Store(NamedTuple).  name stands for the text columns of the row
\* (name, location, address, city, state, zip_code, county), which the
\* program only carries along and prints.
Store(name, latitude, longitude, distance_to_store) ==
    [name |-> name, latitude |-> latitude, longitude |-> longitude,
     distance_to_store |-> distance_to_store]

\* store._replace(distance_to_store=d): a new tuple, the receiver untouched.
Replace(store, d) == [store EXCEPT !.distance_to_store = Some(d)]

\* f'{distance:.2f}': a distance rounded to hundredths of a unit.
Round2(d) == (d + (Scale \div 200)) \div (Scale \div 100)

\* Store.__str__
Str(store) == <<"located at", store.name>>

\* A __format__ that never drops distance_to_store from the rendering.
FormatAlwaysDistance(store, format_spec) ==
    IF format_spec = "json" THEN
        [raised |-> "",
         out |-> <<"json", <<"name", store.name>>,
                   <<"latitude", store.latitude>>,
                   <<"longitude", store.longitude>>,
                   <<"distance_to_store", store.distance_to_store>>>>]
    ELSE IF format_spec = "text" THEN
        [raised |-> "",
         out |-> <<"text", <<"address", store.name>>,
                   <<"Distance to store: ", store.distance_to_store>>>>]
    ELSE IF format_spec = "" THEN
        [raised |-> "", out |-> <<"str", <<"located at", store.name>>>>]
    ELSE
        [raised |-> "ValueError", out |-> <<>>]

\* Store.__format__.  A rendering is the sequence of its parts: for 'json'
\* the key/value pairs of the dumped dict in order, for 'text' the lines.
Format(store, format_spec) ==
    IF format_spec = "json" THEN
        [raised |-> "",
         out |-> <<"json", <<"name", store.name>>,
                   <<"latitude", store.latitude>>,
                   <<"longitude", store.longitude>>>>
                 \o (IF store.distance_to_store = None THEN <<>>
                     ELSE <<<<"distance_to_store", store.distance_to_store[1]>>>>)]
    ELSE IF format_spec = "text" THEN
        [raised |-> "",
         out |-> <<"text", <<"address", store.name>>>>
                 \o (IF store.distance_to_store # None
                     THEN <<<<"Distance to store: ", Round2(store.distance_to_store[1])>>>>
                     ELSE <<>>)]
    ELSE IF format_spec = "" THEN
        [raised |-> "", out |-> <<"str", Str(store)>>]
    ELSE
        [raised |-> "ValueError", out |-> <<>>]

\* ------------------------------------------------------------------------
\* distance_between
\* ------------------------------------------------------------------------

Units == {"mi", "km"}

\* The radii of the two units taken for each other.
SphereRadiusSwapped(units) ==
    IF units = "mi" THEN EARTH_RADIUS_KM ELSE EARTH_RADIUS_MI

SphereRadius(units) ==
    IF units = "mi" THEN EARTH_RADIUS_MI ELSE EARTH_RADIUS_KM

SqrtArg1(point_a, point_b) ==
    LET s == Sin(Half(latitude_radians(point_b) - latitude_radians(point_a)))
    IN  Mul(s, s)

SqrtArg2(point_a, point_b) ==
    LET s == Sin(Half(longitude_radians(point_b) - longitude_radians(point_a)))
    IN  Mul(Mul(Cos(latitude_radians(point_a)), Cos(latitude_radians(point_b))),
            Mul(s, s))

\* math.sqrt raises ValueError for a negative argument, math.asin for an
\* argument above 1.
DistanceRaises(point_a, point_b) ==
    LET sum == SqrtArg1(point_a, point_b) + SqrtArg2(point_a, point_b)
    IN  sum < 0 \/ Sqrt(sum) > Scale

DistanceBetween(point_a, point_b, units) ==
    LET arcsin_arg == Sqrt(SqrtArg1(point_a, point_b) + SqrtArg2(point_a, point_b))
    IN  2 * SphereRadius(units) * Asin(arcsin_arg)

\* ------------------------------------------------------------------------
\* Inputs
\* ------------------------------------------------------------------------

\* The coordinates a row of store-locations.csv may hold.  load_stores
\* converts whatever the file holds, so a row may hold a latitude that is
\* out of range (133, the latitude tests/test_store_finder.py uses).
StorePoints ==
    {Point(60, -60), Point(60, 60), Point(-60, 60), Point(90, 180), Point(133, 37)}

\* The coordinates the geocoder may answer.
GeocodedPoints == {Point(0, 0), Point(60, 60), Point(-90, -180)}

\* The files store-locations.csv may be: a header row and up to MaxStores
\* data rows.  Row k carries the text columns of store k.
CsvFiles ==
    UNION {[1..n -> StorePoints] : n \in 0..MaxStores}

OutputFormats == {"text", "json"}

\* How the program may be invoked: without arguments, with neither or both
\* of --address and --zip, or with exactly one of them.
ArgvKinds == {"none", "neither", "both", "address", "zip"}

\* What geocoder.osm may do: raise, answer without a match, answer.
GeocoderOutcomes == {"exception", "not_ok", "ok"}

ValidPoint(point) ==
    /\ point.latitude >= -90 /\ point.latitude <= 90
    /\ point.longitude >= -180 /\ point.longitude <= 180

\* ------------------------------------------------------------------------
\* State
\* ------------------------------------------------------------------------

VARIABLES
    pc,                     \* the statement of main, or of find_nearest_store, about to run
    csv_file,               \* the data rows of store-locations.csv
    args,                   \* main: args (None before parse_args returns)
    stores,                 \* main: stores
    geocoded_search_point,  \* main: geocoded_search_point (None before geocode returns)
    store_index,            \* find_nearest_store: the position of the for loop
    smallest_distance,      \* find_nearest_store: smallest_distance
    nearest_store,          \* find_nearest_store: nearest_store (None while unbound)
    result,                 \* main: nearest_store (None before the call returns)
    output,                 \* what main printed
    exit_status,            \* how the process ended, "" while it runs
    geocoder_result,        \* what geocoder.osm did, "" before it is called
    distance_calls,         \* the candidates distance_between was called for, in order
    replace_calls           \* the candidates _replace was called on, in order

vars == <<pc, csv_file, args, stores, geocoded_search_point, store_index,
          smallest_distance, nearest_store, result, output, exit_status,
          geocoder_result, distance_calls, replace_calls>>

find_vars == <<store_index, smallest_distance, nearest_store, distance_calls,
               replace_calls>>

Init ==
    /\ pc = "parse_args"
    /\ csv_file \in CsvFiles
    /\ args = None
    /\ stores = <<>>
    /\ geocoded_search_point = None
    /\ store_index = 0
    /\ smallest_distance = 0
    /\ nearest_store = None
    /\ result = None
    /\ output = None
    /\ exit_status = ""
    /\ geocoder_result = ""
    /\ distance_calls = <<>>
    /\ replace_calls = <<>>

\* ------------------------------------------------------------------------
\* main
\* ------------------------------------------------------------------------

\* sys.exit, parser.error or an uncaught exception: the process ends.
Exit(status) ==
    /\ pc' = "exited"
    /\ exit_status' = status

\* parse_args
ParseArgs ==
    /\ pc = "parse_args"
    /\ \E kind \in ArgvKinds, units \in Units, output_format \in OutputFormats :
          IF kind = "none" THEN
              /\ Exit("usage")
              /\ UNCHANGED args
          ELSE IF kind = "neither" THEN
              /\ Exit("Must specify address or zip")
              /\ UNCHANGED args
          ELSE IF kind = "both" THEN
              /\ Exit("Only one of address or zip is allowed")
              /\ UNCHANGED args
          ELSE
              /\ args' = Some([units |-> units, output_format |-> output_format])
              /\ pc' = "load_stores"
              /\ UNCHANGED exit_status
    /\ UNCHANGED <<csv_file, stores, geocoded_search_point, result, output,
                   geocoder_result>>
    /\ UNCHANGED find_vars

\* load_stores: one Store per data row, distance_to_store defaulted to None.
LoadedStores(rows) ==
    [k \in 1..Len(rows) |-> Store(k, rows[k].latitude, rows[k].longitude, None)]

LoadStores ==
    /\ pc = "load_stores"
    /\ stores' = LoadedStores(csv_file)
    /\ pc' = "geocode"
    /\ UNCHANGED <<csv_file, args, geocoded_search_point, result, output, exit_status,
                   geocoder_result>>
    /\ UNCHANGED find_vars

\* A geocode that answers a default point when the lookup fails.
GeocodeFallback ==
    /\ pc = "geocode"
    /\ \E outcome \in GeocoderOutcomes, latlng \in GeocodedPoints :
          /\ geocoder_result' = outcome
          /\ geocoded_search_point' =
                 IF outcome = "ok" THEN Some(Point(latlng.latitude, latlng.longitude))
                 ELSE Some(Point(0, 0))
          /\ pc' = "find_nearest_store"
          /\ UNCHANGED exit_status
    /\ UNCHANGED <<csv_file, args, stores, result, output>>
    /\ UNCHANGED find_vars

\* geocode, and main's handling of GeocodingError: sys.exit(e).
Geocode ==
    /\ pc = "geocode"
    /\ \E outcome \in GeocoderOutcomes, latlng \in GeocodedPoints :
          /\ geocoder_result' = outcome
          /\ IF outcome = "ok" THEN
                 /\ geocoded_search_point' = Some(Point(latlng.latitude, latlng.longitude))
                 /\ pc' = "find_nearest_store"
                 /\ UNCHANGED exit_status
             ELSE
                 /\ Exit("GeocodingError")
                 /\ UNCHANGED geocoded_search_point
    /\ UNCHANGED <<csv_file, args, stores, result, output>>
    /\ UNCHANGED find_vars

\* ------------------------------------------------------------------------
\* find_nearest_store
\* ------------------------------------------------------------------------

\* A sentinel that is the radius, not the circumference.
EarthRadiusAsSentinel(units) ==
    IF units = "mi" THEN EARTH_RADIUS_MI * Scale ELSE EARTH_RADIUS_KM * Scale

EarthCircumference(units) ==
    IF units = "mi" THEN 2 * Pi * EARTH_RADIUS_MI ELSE 2 * Pi * EARTH_RADIUS_KM

\* A test that lets a candidate at an equal distance replace the best.
IsNearerOrEqual(distance_to_store, smallest) == distance_to_store <= smallest

\* The test of the loop body.
IsNearer(distance_to_store, smallest) == distance_to_store < smallest

\* The call, up to the for statement.
FindEnter ==
    /\ pc = "find_nearest_store"
    /\ smallest_distance' = EarthCircumference(args[1].units)
    /\ store_index' = 1
    /\ nearest_store' = None
    /\ distance_calls' = <<>>
    /\ replace_calls' = <<>>
    /\ pc' = "scan"
    /\ UNCHANGED <<csv_file, args, stores, geocoded_search_point, result, output,
                   exit_status, geocoder_result>>

\* A loop body that forgets to lower smallest_distance.
ScanStepKeepsSmallest ==
    /\ pc = "scan"
    /\ store_index <= Len(stores)
    /\ LET store == stores[store_index]
           store_point == Point(store.latitude, store.longitude)
           search_point == geocoded_search_point[1]
           distance_to_store ==
               DistanceBetween(search_point, store_point, args[1].units)
       IN  /\ distance_calls' = Append(distance_calls, store_index)
           /\ IF IsNearer(distance_to_store, smallest_distance) THEN
                  /\ nearest_store' = Some(Replace(store, distance_to_store))
                  /\ replace_calls' = Append(replace_calls, store_index)
              ELSE
                  UNCHANGED <<nearest_store, replace_calls>>
           /\ store_index' = store_index + 1
    /\ UNCHANGED <<pc, exit_status, smallest_distance>>
    /\ UNCHANGED <<csv_file, args, stores, geocoded_search_point, result, output,
                   geocoder_result>>

\* A loop body that writes the distance into the store of the list.
ScanStepInPlace ==
    /\ pc = "scan"
    /\ store_index <= Len(stores)
    /\ LET store == stores[store_index]
           store_point == Point(store.latitude, store.longitude)
           search_point == geocoded_search_point[1]
           distance_to_store ==
               DistanceBetween(search_point, store_point, args[1].units)
       IN  /\ distance_calls' = Append(distance_calls, store_index)
           /\ IF IsNearer(distance_to_store, smallest_distance) THEN
                  /\ stores' = [stores EXCEPT ![store_index] =
                                    Replace(store, distance_to_store)]
                  /\ nearest_store' = Some(Replace(store, distance_to_store))
                  /\ smallest_distance' = distance_to_store
                  /\ replace_calls' = Append(replace_calls, store_index)
              ELSE
                  UNCHANGED <<stores, nearest_store, smallest_distance, replace_calls>>
           /\ store_index' = store_index + 1
    /\ UNCHANGED <<pc, exit_status>>
    /\ UNCHANGED <<csv_file, args, geocoded_search_point, result, output,
                   geocoder_result>>

\* A loop body that copies every candidate before it tests the distance.
ScanStepCopiesFirst ==
    /\ pc = "scan"
    /\ store_index <= Len(stores)
    /\ LET store == stores[store_index]
           store_point == Point(store.latitude, store.longitude)
           search_point == geocoded_search_point[1]
           distance_to_store ==
               DistanceBetween(search_point, store_point, args[1].units)
       IN  /\ distance_calls' = Append(distance_calls, store_index)
           /\ replace_calls' = Append(replace_calls, store_index)
           /\ IF IsNearer(distance_to_store, smallest_distance) THEN
                  /\ nearest_store' = Some(Replace(store, distance_to_store))
                  /\ smallest_distance' = distance_to_store
              ELSE
                  UNCHANGED <<nearest_store, smallest_distance>>
           /\ store_index' = store_index + 1
    /\ UNCHANGED <<pc, exit_status>>
    /\ UNCHANGED <<csv_file, args, stores, geocoded_search_point, result, output,
                   geocoder_result>>

\* One pass of the loop body.  An exception of distance_between is not
\* caught, here or in main.
ScanStep ==
    /\ pc = "scan"
    /\ store_index <= Len(stores)
    /\ LET store == stores[store_index]
           store_point == Point(store.latitude, store.longitude)
           search_point == geocoded_search_point[1]
       IN  IF DistanceRaises(search_point, store_point) THEN
               /\ Exit("ValueError")
               /\ UNCHANGED find_vars
           ELSE
               LET distance_to_store ==
                       DistanceBetween(search_point, store_point, args[1].units)
               IN  /\ distance_calls' = Append(distance_calls, store_index)
                   /\ IF IsNearer(distance_to_store, smallest_distance) THEN
                          /\ nearest_store' = Some(Replace(store, distance_to_store))
                          /\ smallest_distance' = distance_to_store
                          /\ replace_calls' = Append(replace_calls, store_index)
                      ELSE
                          UNCHANGED <<nearest_store, smallest_distance, replace_calls>>
                   /\ store_index' = store_index + 1
                   /\ UNCHANGED <<pc, exit_status>>
    /\ UNCHANGED <<csv_file, args, stores, geocoded_search_point, result, output,
                   geocoder_result>>

\* A return statement that answers a default record when nothing was found.
FindReturnDefault ==
    /\ pc = "scan"
    /\ store_index > Len(stores)
    /\ result' = IF nearest_store = None THEN Some(Store(0, 0, 0, None))
                 ELSE nearest_store
    /\ pc' = "print"
    /\ UNCHANGED <<csv_file, args, stores, geocoded_search_point, output, exit_status,
                   geocoder_result>>
    /\ UNCHANGED find_vars

\* The return statement: reading nearest_store while it is unbound raises
\* UnboundLocalError, which main does not catch.
FindReturn ==
    /\ pc = "scan"
    /\ store_index > Len(stores)
    /\ IF nearest_store = None THEN
           /\ Exit("UnboundLocalError")
           /\ UNCHANGED result
       ELSE
           /\ result' = nearest_store
           /\ pc' = "print"
           /\ UNCHANGED exit_status
    /\ UNCHANGED <<csv_file, args, stores, geocoded_search_point, output,
                   geocoder_result>>
    /\ UNCHANGED find_vars

\* print(f'{nearest_store:{args.output_format}}')
PrintNearest ==
    /\ pc = "print"
    /\ LET rendered == Format(result[1], args[1].output_format)
       IN  IF rendered.raised # "" THEN
               /\ Exit(rendered.raised)
               /\ UNCHANGED output
           ELSE
               /\ output' = Some(rendered.out)
               /\ Exit("0")
    /\ UNCHANGED <<csv_file, args, stores, geocoded_search_point, result,
                   geocoder_result>>
    /\ UNCHANGED find_vars

Next ==
    \/ ParseArgs
    \/ LoadStores
    \/ Geocode
    \/ FindEnter
    \/ ScanStep
    \/ FindReturn
    \/ PrintNearest

Spec == Init /\ [][Next]_vars

\* ------------------------------------------------------------------------
\* Properties
\* ------------------------------------------------------------------------

\* find_nearest_store has been called (and may have ended).
CallEntered ==
    \/ pc = "scan"
    \/ pc = "print"
    \/ (pc = "exited" /\ geocoded_search_point # None)

\* find_nearest_store has ended, by a return or by an exception.
CallEnded ==
    \/ pc = "print"
    \/ (pc = "exited" /\ geocoded_search_point # None)

\* load_stores has returned.
StoresLoaded == args # None /\ pc # "load_stores"

StorePoint(k) == Point(stores[k].latitude, stores[k].longitude)

\* distance_between over the points of the model, computed once.
AllPoints == GeocodedPoints \cup StorePoints

Distances ==
    [point_a \in AllPoints, point_b \in AllPoints, units \in Units |->
        DistanceBetween(point_a, point_b, units)]

Raising ==
    [point_a \in AllPoints, point_b \in AllPoints |->
        DistanceRaises(point_a, point_b)]

\* The distance from the query point to candidate k, in the chosen unit.
DistanceTo(k) == Distances[geocoded_search_point[1], StorePoint(k), args[1].units]

AllStoresValid == \A k \in 1..Len(stores) : ValidPoint(StorePoint(k))

\* pi * R(U), with R = 6371 for kilometers and 6371 * 0.621371 for miles.
HalfCircumference(units) ==
    IF units = "km" THEN Pi * EARTH_RADIUS_KM ELSE Pi * EARTH_RADIUS_MI

\* The candidates among the first n whose distance is strictly below the
\* distance of every candidate before them, in order.
RECURSIVE StrictMinima(_)
StrictMinima(n) ==
    IF n = 0 THEN <<>>
    ELSE IF \A j \in 1..(n - 1) : DistanceTo(n) < DistanceTo(j)
         THEN Append(StrictMinima(n - 1), n)
         ELSE StrictMinima(n - 1)

HasKey(rendering, key) ==
    \E i \in 2..Len(rendering) : rendering[i][1] = key

FormatSpecs == {"json", "text", "", "invalid_format_spec"}

\* The stores the program holds: those of the list, the running best and
\* the returned record.
StoresInState ==
    {stores[k] : k \in 1..Len(stores)}
        \cup (IF nearest_store = None THEN {} ELSE {nearest_store[1]})
        \cup (IF result = None THEN {} ELSE {result[1]})

\* C1: the record find_nearest_store returns is a copy of a candidate whose
\* distance from the query is the minimum over all candidates, and its
\* distance_to_store is that minimum.
C1_NearestCorrectness ==
    result # None =>
        \E k \in 1..Len(stores) :
            /\ result[1] = Replace(stores[k], DistanceTo(k))
            /\ \A j \in 1..Len(stores) : DistanceTo(k) <= DistanceTo(j)

\* C1 witness: three candidates at three different distances, the nearest
\* neither first nor last in the list, and the call has returned.
C1_Witness ==
    /\ result # None
    /\ Len(stores) = 3
    /\ result[1].name = 2
    /\ DistanceTo(2) < DistanceTo(3)
    /\ DistanceTo(3) < DistanceTo(1)

\* C2: among the candidates at the minimum distance the earliest of the
\* list is returned, and no candidate replaced the running best while an
\* earlier candidate was at exactly the same distance.
C2_TieBreakFirst ==
    /\ result # None =>
           \A j \in 1..Len(stores) :
               Some(DistanceTo(j)) = result[1].distance_to_store
                   => result[1].name <= j
    /\ CallEntered =>
           \A i \in 1..Len(replace_calls) :
               \A j \in 1..(replace_calls[i] - 1) :
                   DistanceTo(j) # DistanceTo(replace_calls[i])

\* C2 witness: the call returned the first candidate while a later one,
\* at another place, is at exactly the same minimum distance.
C2_Witness ==
    /\ result # None
    /\ result[1].name = 1
    /\ \E j \in 2..Len(stores) :
           /\ Some(DistanceTo(j)) = result[1].distance_to_store
           /\ StorePoint(j) # StorePoint(1)

\* C3: called with an empty store list, find_nearest_store ends with an
\* exception (UnboundLocalError) that reaches the caller and ends the
\* process; no record is returned and nothing is printed.
C3_EmptyInputFails ==
    (CallEnded /\ Len(stores) = 0) =>
        /\ pc = "exited"
        /\ exit_status = "UnboundLocalError"
        /\ result = None
        /\ output = None

\* C3 witness: the call was made with an empty list and has ended.
C3_Witness ==
    /\ CallEnded
    /\ Len(stores) = 0
    /\ distance_calls = <<>>
    /\ exit_status = "UnboundLocalError"

\* C4: from its loading on, the store list is what load_stores built from
\* the file: same length, same order, every field unchanged and every
\* distance_to_store None; only the returned copy carries a distance.
C4_StoresNotMutated ==
    /\ StoresLoaded =>
           /\ stores = LoadedStores(csv_file)
           /\ \A k \in 1..Len(stores) : stores[k].distance_to_store = None
    /\ result # None => result[1].distance_to_store # None

\* C4 witness: a search over several stores has returned and its result
\* has been printed.
C4_Witness ==
    /\ exit_status = "0"
    /\ Len(stores) >= 2
    /\ Len(replace_calls) >= 2
    /\ result # None

\* C5: over candidates with valid coordinates every distance is strictly
\* below the sentinel, the first candidate scanned replaces it, and a call
\* with at least one candidate ends with a record whose distance is set.
C5_ExactlyOneResult ==
    (CallEntered /\ AllStoresValid) =>
        /\ \A k \in 1..Len(stores) :
               /\ ~Raising[geocoded_search_point[1], StorePoint(k)]
               /\ DistanceTo(k) < EarthCircumference(args[1].units)
        /\ store_index > 1 =>
               /\ nearest_store # None
               /\ Len(replace_calls) >= 1
               /\ replace_calls[1] = 1
        /\ (CallEnded /\ Len(stores) > 0) =>
               /\ pc = "print" \/ exit_status = "0"
               /\ result # None
               /\ result[1].distance_to_store # None

\* C5 witness: a call over several valid candidates, the first of them
\* farther away than the sphere's radius, has returned.
C5_Witness ==
    /\ CallEnded
    /\ Len(stores) >= 2
    /\ AllStoresValid
    /\ result # None
    /\ DistanceTo(1) > EARTH_RADIUS_KM * Scale

\* C6: between the query point and any valid store point, in either
\* order and in both units, distance_between raises nothing and its value
\* is at least 0 and at most pi * R(U).
C6_DistanceBounds ==
    CallEntered =>
        \A k \in 1..Len(stores) : \A units \in Units :
            ValidPoint(StorePoint(k)) =>
                LET q == geocoded_search_point[1]
                    p == StorePoint(k)
                IN  /\ ~Raising[q, p]
                    /\ ~Raising[p, q]
                    /\ Distances[q, p, units] >= 0
                    /\ Distances[q, p, units] <= HalfCircumference(units)
                    /\ Distances[p, q, units] >= 0
                    /\ Distances[p, q, units] <= HalfCircumference(units)
                    /\ (store_index > k /\ units = args[1].units)
                           => smallest_distance <= HalfCircumference(units)

\* C6 witness: the scan computed, in miles, the distance between two
\* antipodal points, which is the half-circumference itself, and another
\* distance that is not 0.
C6_Witness ==
    /\ pc = "scan"
    /\ args[1].units = "mi"
    /\ Len(distance_calls) = 2
    /\ DistanceTo(1) = HalfCircumference("mi")
    /\ DistanceTo(2) > 0
    /\ DistanceTo(2) < DistanceTo(1)
    /\ smallest_distance = DistanceTo(2)

\* C7: every point handed to find_nearest_store and distance_between has
\* its latitude in [-90, 90] and its longitude in [-180, 180].
C7_PointsInRange ==
    CallEntered =>
        /\ ValidPoint(geocoded_search_point[1])
        /\ \A i \in 1..Len(distance_calls) : ValidPoint(StorePoint(distance_calls[i]))

\* C8: when the geocoder raises or answers without a match, no query point
\* is built, the process ends with the GeocodingError, find_nearest_store
\* is never entered and nothing is printed; find_nearest_store runs only
\* with a query point geocode returned.
C8_GeocodingFailureStopsSearch ==
    /\ geocoder_result \in {"exception", "not_ok"} =>
           /\ pc = "exited"
           /\ exit_status = "GeocodingError"
           /\ geocoded_search_point = None
           /\ store_index = 0
           /\ distance_calls = <<>>
           /\ nearest_store = None
           /\ result = None
           /\ output = None
    /\ (pc \in {"find_nearest_store", "scan", "print"} \/ store_index > 0) =>
           /\ geocoder_result = "ok"
           /\ geocoded_search_point # None

\* C8 witness: the store list is loaded, the geocoder found no match and
\* the process has ended.
C8_Witness ==
    /\ geocoder_result = "not_ok"
    /\ Len(stores) > 0
    /\ pc = "exited"

\* C9: for every store the program holds, the 'json' rendering has the key
\* distance_to_store exactly when the field is not None, the 'text'
\* rendering has the distance line exactly when the field is not None, the
\* empty specifier renders str(store), any other specifier raises
\* ValueError; and what main prints for the returned record has the
\* distance.
C9_DistanceRenderedIffComputed ==
    /\ \A store \in StoresInState :
           /\ Format(store, "json").raised = ""
           /\ HasKey(Format(store, "json").out, "distance_to_store")
                  <=> store.distance_to_store # None
           /\ Format(store, "text").raised = ""
           /\ HasKey(Format(store, "text").out, "Distance to store: ")
                  <=> store.distance_to_store # None
           /\ Format(store, "") = [raised |-> "", out |-> <<"str", Str(store)>>]
           /\ \A format_spec \in FormatSpecs \ {"json", "text", ""} :
                  /\ Format(store, format_spec).raised = "ValueError"
                  /\ Format(store, format_spec).out = <<>>
    /\ output # None =>
           /\ result # None
           /\ output[1] = Format(result[1], args[1].output_format).out
           /\ \/ HasKey(output[1], "distance_to_store")
              \/ HasKey(output[1], "Distance to store: ")

\* C9 witness: main has printed, as JSON, a record returned by a search
\* over a list whose stores carry no distance.
C9_Witness ==
    /\ output # None
    /\ args[1].output_format = "json"
    /\ HasKey(output[1], "distance_to_store")
    /\ Len(stores) >= 2
    /\ ~HasKey(Format(stores[1], "json").out, "distance_to_store")

\* C10: after k passes of the loop distance_between has been called once
\* for each of the first k candidates, in order; a copy has been made of
\* exactly the candidates strictly nearer than all before them; and the
\* running best distance is the minimum over the first k candidates (the
\* sentinel before the first pass).
C10_SingleOrderedScan ==
    (CallEntered /\ exit_status # "ValueError") =>
        /\ store_index >= 1
        /\ store_index <= Len(stores) + 1
        /\ CallEnded => store_index = Len(stores) + 1
        /\ distance_calls = [k \in 1..(store_index - 1) |-> k]
        /\ replace_calls = StrictMinima(store_index - 1)
        /\ \A i \in 1..Len(replace_calls) :
               DistanceTo(replace_calls[i]) < EarthCircumference(args[1].units)
        /\ IF store_index = 1
           THEN smallest_distance = EarthCircumference(args[1].units)
           ELSE /\ \E k \in 1..(store_index - 1) : smallest_distance = DistanceTo(k)
                /\ \A k \in 1..(store_index - 1) : smallest_distance <= DistanceTo(k)

\* C10 witness: three candidates scanned, copies made of the first and of
\* the third only.
C10_Witness ==
    /\ pc = "scan"
    /\ store_index = 4
    /\ distance_calls = <<1, 2, 3>>
    /\ replace_calls = <<1, 3>>
====
